---- MODULE Spec2Model ----
(***************************************************************************)
(* A model of darts' RandomForest forecasting model                        *)
(* (darts/models/forecasting/random_forest.py) and of the probabilistic    *)
(* models test module (darts/tests/test_probabilistic_models.py).          *)
(*                                                                         *)
(* SpecRF  : one call of RandomForest(...) followed by str() of the result *)
(* SpecTest: import of the test module followed by runs of its tests       *)
(***************************************************************************)
EXTENDS Integers, Sequences, FiniteSets, TLC

\* ------------------------------------------------------------------ bounds
MaxLag == 2          \* lag counts 0..MaxLag, lag offsets down to -MaxLag
MaxEstimators == 1   \* explicit n_estimators / max_depth values: 1..MaxEstimators
MaxOptionValue == 1  \* values of the extra keyword options: 0..MaxOptionValue
MaxSeed == 3         \* the random_state a model takes when none is given: 0..MaxSeed

\* ------------------------------------------------------------ Python values
\* None and integers, kept apart by a tag.
PyNone == [t |-> "None", v |-> 0]

PyInt(n) == [t |-> "int", v |-> n]

\* An argument the caller did not write in the call.
Omitted == [t |-> "omitted", v |-> 0]

\* A lag specification: None, an integer count, a list of lags, a
\* (past, future) tuple.
LagNone == [kind |-> "None", val |-> <<>>]

LagInt(n) == [kind |-> "int", val |-> <<n>>]

LagList(s) == [kind |-> "list", val |-> s]

LagTuple(p, f) == [kind |-> "tuple", val |-> <<p, f>>]

\* An attribute that has not been assigned.
Unset == [kind |-> "unset", val |-> <<>>]

LagLists == {<<0 - 1>>, <<0 - MaxLag, 0 - 1>>, <<0>>}

\* what a caller may write for lags and lags_past_covariates
TargetLagInputs == {LagNone} \cup {LagInt(n) : n \in 0 .. MaxLag} \cup {LagList(s) : s \in LagLists}

\* what a caller may write for lags_future_covariates
FutureLagInputs ==
    {LagNone} \cup {LagTuple(p, f) : p \in {0 - 1, 1}, f \in {0, 1}} \cup {LagList(s) : s \in LagLists}

\* ----------------------------------------------------------- dictionaries
\* A dict is a function from its keys to its values.
EmptyDict == [k \in {} |-> PyNone]

DictSet(d, key, value) == [k \in (DOMAIN d) \cup {key} |-> IF k = key THEN value ELSE d[k]]

\* keyword names a caller may add to the call: an option of
\* RandomForestRegressor and a name it does not know
ExtraKeys == {"random_state", "bogus"}

ExtraDicts ==
    UNION {[ks -> {PyInt(v) : v \in 0 .. MaxOptionValue}] : ks \in SUBSET ExtraKeys}

HyperInputs == {Omitted} \cup {PyInt(n) : n \in 1 .. MaxEstimators}

\* ------------------------------------------------------------------ state
VARIABLES
    heap,       \* the dict objects, by identity: heap[i] is the content of dict i
    call,       \* the arguments of the RandomForest(...) call that was made
    self,       \* the RandomForest object under construction / constructed
    rfr,        \* what RandomForestRegressor(...) was called with
    base,       \* what RegressionModel.__init__ was called with
    result,     \* "none", "instance" or the exception the call raised
    trace,      \* the calls made by the constructor, in order
    strResult   \* the outcome of str(model)

rfVars == <<heap, call, self, rfr, base, result, trace, strResult>>

VARIABLES
    importOK,                \* environment: the torch-based imports succeed
    defaultSeed,             \* environment: random_state of a model given none
    loaded,                  \* the test module has been imported
    TORCH_AVAILABLE,         \* "unset", "True" or "False"
    warned,                  \* the warning of the except branch was logged
    models_cls_kwargs_errs,  \* the module-level list of (class, kwargs, err)
    globalRng,               \* the state of numpy's global random generator
    tests,                   \* each test method: "notrun", "passed", "failed"
    calls,                   \* the fit / predict calls made so far, by class
    detRuns                  \* test_fit_predict_determinism: pred1..pred3 per entry

testVars ==
    <<importOK, defaultSeed, loaded, TORCH_AVAILABLE, warned, models_cls_kwargs_errs,
      globalRng, tests, calls, detRuns>>

vars == <<rfVars, testVars>>

\* the dict the caller expands with ** into the call
CallerDict == 1

NoCall ==
    [made |-> FALSE, lags |-> Unset, lags_past_covariates |-> Unset,
     lags_future_covariates |-> Unset, n_estimators |-> Omitted, max_depth |-> Omitted,
     extra |-> EmptyDict]

NoSelf ==
    [set |-> {}, n_estimators |-> Omitted, max_depth |-> Omitted, kwargs |-> 0,
     lags |-> Unset, lags_past_covariates |-> Unset, lags_future_covariates |-> Unset,
     model |-> 0]

NoRfr == [called |-> FALSE, kw |-> 0]

NoBase ==
    [called |-> FALSE, lags |-> Unset, lags_past_covariates |-> Unset,
     lags_future_covariates |-> Unset, model |-> 0]

NoStr == [called |-> FALSE, outcome |-> "none", missing |-> "", value |-> <<>>]

\* ------------------------------------------------- RandomForest.__init__
DefaultNEstimators == 100

\* the defaults of the signature
DefaultArg(arg, default) == IF arg = Omitted THEN default ELSE arg

\* a slip: the callee's keyword parameter is the caller's dict itself
StarStarAliased(h, d) == [heap |-> h, id |-> d]

\* f(**d): the callee's keyword parameter is a new dict with d's items
StarStar(h, d) == [heap |-> Append(h, h[d]), id |-> Len(h) + 1]

\* a slip: max_depth is not written into the keyword options
InitKwargsWithoutDepth(kw, n_estimators, max_depth) == DictSet(kw, "n_estimators", n_estimators)

\* self.kwargs["n_estimators"] = ...; self.kwargs["max_depth"] = ...
InitKwargs(kw, n_estimators, max_depth) ==
    DictSet(DictSet(kw, "n_estimators", n_estimators), "max_depth", max_depth)

\* the keyword arguments RandomForestRegressor's signature has
RegressorParams == {"n_estimators", "max_depth", "random_state"}

\* RandomForestRegressor(**kw) raises TypeError for a keyword it does not have
RegressorAccepts(kw) == DOMAIN kw \subseteq RegressorParams

\* a slip: the covariate lags are passed in each other's place
SuperArgsSwapped(lags, lags_past_covariates, lags_future_covariates) ==
    [lags |-> lags, lags_past_covariates |-> lags_future_covariates,
     lags_future_covariates |-> lags_past_covariates]

\* the lag arguments of super().__init__(...)
SuperArgs(lags, lags_past_covariates, lags_future_covariates) ==
    [lags |-> lags, lags_past_covariates |-> lags_past_covariates,
     lags_future_covariates |-> lags_future_covariates]

\* RegressionModel.__init__: which lag specifications it accepts
ValidTargetLags(l) ==
    \/ l.kind = "None"
    \/ l.kind = "int" /\ l.val[1] > 0
    \/ l.kind = "list" /\ Len(l.val) > 0 /\ \A i \in 1 .. Len(l.val) : l.val[i] < 0

ValidFutureLags(l) ==
    \/ l.kind = "None"
    \/ l.kind = "tuple" /\ l.val[1] >= 0 /\ l.val[2] >= 0
    \/ l.kind = "list" /\ Len(l.val) > 0

BaseAccepts(a) ==
    /\ ValidTargetLags(a.lags)
    /\ ValidTargetLags(a.lags_past_covariates)
    /\ ValidFutureLags(a.lags_future_covariates)

\* the attributes RegressionModel.__init__ sets on the object
BaseAttrs == {"lags", "lags_past_covariates", "lags_future_covariates", "model"}

\* a slip: the base constructor runs before the regressor is built
InitBodyBaseFirst(regressorOk, baseOk) ==
    IF ~baseOk
    THEN [out |-> "RegressionModelError", trace |-> <<"RegressionModel.__init__">>]
    ELSE IF ~regressorOk
    THEN [out |-> "TypeError",
          trace |-> <<"RegressionModel.__init__", "RandomForestRegressor">>]
    ELSE [out |-> "instance",
          trace |-> <<"RegressionModel.__init__", "RandomForestRegressor">>]

\* the calls the body makes, in order: the arguments of super().__init__(...)
\* are evaluated first, so the regressor is built before the base constructor
\* runs; no call is inside a try. out is the exception raised, if any.
InitBody(regressorOk, baseOk) ==
    IF ~regressorOk
    THEN [out |-> "TypeError", trace |-> <<"RandomForestRegressor">>]
    ELSE IF ~baseOk
    THEN [out |-> "RegressionModelError",
          trace |-> <<"RandomForestRegressor", "RegressionModel.__init__">>]
    ELSE [out |-> "instance",
          trace |-> <<"RandomForestRegressor", "RegressionModel.__init__">>]

Called(tr, f) == \E i \in 1 .. Len(tr) : tr[i] = f

Construct(lags, lpc, lfc, ne, md) ==
    /\ result = "none"
    /\ LET n_estimators == DefaultArg(ne, PyInt(DefaultNEstimators))
           max_depth == DefaultArg(md, PyNone)
           kwargs == StarStar(heap, CallerDict)
           h1 == [kwargs.heap EXCEPT ![kwargs.id] = InitKwargs(@, n_estimators, max_depth)]
           rkw == StarStar(h1, kwargs.id)
           regressorOk == RegressorAccepts(rkw.heap[rkw.id])
           args == SuperArgs(lags, lpc, lfc)
           baseOk == BaseAccepts(args)
           body == InitBody(regressorOk, baseOk)
           out == body.out
           tr == body.trace
           baseCalled == Called(tr, "RegressionModel.__init__")
       IN /\ call' = [made |-> TRUE, lags |-> lags, lags_past_covariates |-> lpc,
                      lags_future_covariates |-> lfc, n_estimators |-> ne, max_depth |-> md,
                      extra |-> heap[CallerDict]]
          /\ heap' = rkw.heap
          /\ rfr' = IF Called(tr, "RandomForestRegressor")
                    THEN [called |-> TRUE, kw |-> rkw.id]
                    ELSE NoRfr
          /\ base' = IF baseCalled
                     THEN [called |-> TRUE, lags |-> args.lags,
                           lags_past_covariates |-> args.lags_past_covariates,
                           lags_future_covariates |-> args.lags_future_covariates,
                           model |-> rkw.id]
                     ELSE NoBase
          /\ self' = IF out = "instance"
                     THEN [set |-> {"n_estimators", "max_depth", "kwargs"} \cup BaseAttrs,
                           n_estimators |-> n_estimators, max_depth |-> max_depth,
                           kwargs |-> kwargs.id, lags |-> args.lags,
                           lags_past_covariates |-> args.lags_past_covariates,
                           lags_future_covariates |-> args.lags_future_covariates,
                           model |-> rkw.id]
                     ELSE [NoSelf EXCEPT !.set = {"n_estimators", "max_depth", "kwargs"},
                                         !.n_estimators = n_estimators,
                                         !.max_depth = max_depth,
                                         !.kwargs = kwargs.id]
          /\ result' = out
          /\ trace' = tr
    /\ UNCHANGED strResult
    /\ UNCHANGED testVars

\* ---------------------------------------------------- RandomForest.__str__
\* the attributes the f-string reads, in order
StrReads ==
    <<"lags", "lags_past_covariates", "lags_historical_covariates",
      "lags_future_covariates", "n_estimators", "max_depth">>

PyRepr(v) == IF v.t = "None" THEN "None" ELSE ToString(v.v)

LagRepr(l) ==
    IF l.kind = "None" THEN "None"
    ELSE IF l.kind = "int" THEN ToString(l.val[1])
    ELSE ToString(l.val)

\* the first attribute of reads that the object does not have, "" if none
FirstMissing(reads, has) ==
    IF \A i \in 1 .. Len(reads) : reads[i] \in has THEN ""
    ELSE reads[CHOOSE i \in 1 .. Len(reads) :
                 /\ reads[i] \notin has
                 /\ \A j \in 1 .. i - 1 : reads[j] \in has]

StrValue(s) ==
    <<"RandomForest(lags=", LagRepr(s.lags),
      ", lags_past_covariates=", LagRepr(s.lags_past_covariates),
      ", lags_historical_covariates=", "",
      ", lags_future_covariates=", LagRepr(s.lags_future_covariates),
      ", n_estimators=", PyRepr(s.n_estimators),
      ", max_depth=", PyRepr(s.max_depth)>>

Str ==
    /\ result = "instance"
    /\ ~strResult.called
    /\ LET missing == FirstMissing(StrReads, self.set)
       IN strResult' = IF missing = ""
                       THEN [called |-> TRUE, outcome |-> "ok", missing |-> "",
                             value |-> StrValue(self)]
                       ELSE [called |-> TRUE, outcome |-> "AttributeError",
                             missing |-> missing, value |-> <<>>]
    /\ UNCHANGED <<heap, call, self, rfr, base, result, trace>>
    /\ UNCHANGED testVars

\* ====================================================================
\* darts/tests/test_probabilistic_models.py
\* ====================================================================
TestNames ==
    {"test_fit_predict_determinism", "test_probabilistic_forecast_accuracy",
     "test_probabilistic_forecast_risk"}

PyObj(name) == [t |-> name, v |-> 0]

\* the entries of the list; err is in hundredths (0.4 is 40)
BaseEntries ==
    <<[cls |-> "ExponentialSmoothing", kwargs |-> EmptyDict, err |-> 40],
      [cls |-> "ARIMA",
       kwargs |-> [k \in {"p", "d", "q"} |-> IF k = "d" THEN PyInt(0) ELSE PyInt(1)],
       err |-> 17]>>

TorchEntries ==
    <<[cls |-> "RNNModel",
       kwargs |-> [k \in {"input_chunk_length", "training_length", "n_epochs",
                          "random_state", "likelihood"} |->
                     CASE k = "input_chunk_length" -> PyInt(2)
                       [] k = "training_length" -> PyInt(10)
                       [] k = "n_epochs" -> PyInt(20)
                       [] k = "random_state" -> PyInt(0)
                       [] k = "likelihood" -> PyObj("GaussianLikelihoodModel")],
       err |-> 190],
      [cls |-> "TCNModel",
       kwargs |-> [k \in {"input_chunk_length", "output_chunk_length", "n_epochs",
                          "random_state", "likelihood"} |->
                     CASE k = "input_chunk_length" -> PyInt(10)
                       [] k = "output_chunk_length" -> PyInt(5)
                       [] k = "n_epochs" -> PyInt(60)
                       [] k = "random_state" -> PyInt(0)
                       [] k = "likelihood" -> PyObj("GaussianLikelihoodModel")],
       err |-> 28]>>

TorchModels == {"RNNModel", "TCNModel"}

\* try: import ... TORCH_AVAILABLE = True / except ImportError: ... = False
TryImport(ok) == IF ok THEN "True" ELSE "False"

\* a slip: the torch entries are added whatever TORCH_AVAILABLE is
ModelsListUnguarded(available) == BaseEntries \o TorchEntries

\* models_cls_kwargs_errs = [...]; if TORCH_AVAILABLE: models_cls_kwargs_errs += [...]
ModelsList(available) ==
    IF available = "True" THEN BaseEntries \o TorchEntries ELSE BaseEntries

\* --------------------------------------------- the probabilistic models
\* one step of a random generator's state
Lcg(s) == (s + 7) % 64

\* the state after k steps
Advance(s, k) == (s + 7 * k) % 64

\* the next k draws of a generator in state s
Draws(s, k) == [i \in 1 .. k |-> Advance(s, i)]

\* a slip: the model seeds itself from numpy's global generator
NewModelUnseeded(cls, kwargs, dflt, g) ==
    [model |-> [cls |-> cls, kwargs |-> kwargs, rng |-> g, fitted |-> FALSE,
                series |-> ""],
     g |-> Lcg(g)]

\* model_cls(**model_kwargs): the generator is seeded with random_state
NewModel(cls, kwargs, dflt, g) ==
    [model |-> [cls |-> cls, kwargs |-> kwargs,
                rng |-> IF "random_state" \in DOMAIN kwargs
                        THEN kwargs["random_state"].v ELSE dflt,
                fitted |-> FALSE, series |-> ""],
     g |-> g]

\* model.fit(series): training draws from the model's generator once per epoch
Fit(m, series) ==
    [m EXCEPT !.fitted = TRUE,
              !.series = series,
              !.rng = IF "n_epochs" \in DOMAIN m.kwargs
                      THEN Advance(@, m.kwargs["n_epochs"].v) ELSE @]

\* a slip: every predict call starts again from the state left by fit
PredictReseeded(m, n, num_samples) ==
    [values |-> Draws(m.rng, n * num_samples), model |-> m]

\* model.predict(n, num_samples): n * num_samples draws, which the generator keeps
Predict(m, n, num_samples) ==
    [values |-> Draws(m.rng, n * num_samples),
     model |-> [m EXCEPT !.rng = Advance(@, n * num_samples)]]

\* issubclass(model_cls, GlobalForecastingModel)
IsGlobal(cls) == cls \in TorchModels

\* --------------------------------------------------------- module import
\* the class body: np.random.seed(0), then gaussian_timeseries(length=200)
ClassBodyRng == Advance(0, 200)

LoadModule ==
    /\ loaded = FALSE
    /\ loaded' = TRUE
    /\ TORCH_AVAILABLE' = TryImport(importOK)
    /\ warned' = ~importOK
    /\ models_cls_kwargs_errs' = ModelsList(TryImport(importOK))
    /\ globalRng' = ClassBodyRng
    /\ UNCHANGED <<importOK, defaultSeed, tests, calls, detRuns>>
    /\ UNCHANGED rfVars

\* ------------------------------------------ test_fit_predict_determinism
\* one pass of the loop body on entry e, with the global generator in state g
DeterminismBody(e, g) ==
    LET c1 == NewModel(e.cls, e.kwargs, defaultSeed, g)
        p1 == Predict(Fit(c1.model, "constant_ts"), 10, 2)
        c2 == NewModel(e.cls, e.kwargs, defaultSeed, c1.g)
        p2 == Predict(Fit(c2.model, "constant_ts"), 10, 2)
        same == p1.values = p2.values
        p3 == Predict(p2.model, 10, 2)
    IN [cls |-> e.cls, pred1 |-> p1.values, pred2 |-> p2.values,
        pred3 |-> IF same THEN p3.values ELSE <<>>,
        ok |-> same /\ p2.values # p3.values,
        g |-> c2.g]

\* the loop: the passes made, up to and including the first failed assertion
RECURSIVE DeterminismLoop(_, _, _)
DeterminismLoop(list, i, g) ==
    IF i > Len(list) THEN <<>>
    ELSE LET r == DeterminismBody(list[i], g)
         IN IF r.ok THEN <<r>> \o DeterminismLoop(list, i + 1, r.g) ELSE <<r>>

\* the fit and predict calls on models of the classes clss with series
CallsOf(clss, series) ==
    {[cls |-> c, op |-> o, series |-> series] : c \in clss, o \in {"fit", "predict"}}

RunDeterminism ==
    /\ loaded
    /\ tests["test_fit_predict_determinism"] = "notrun"
    /\ LET runs == DeterminismLoop(models_cls_kwargs_errs, 1, globalRng)
       IN /\ detRuns' = runs
          /\ calls' = calls \cup CallsOf({runs[i].cls : i \in 1 .. Len(runs)}, "constant_ts")
          /\ globalRng' = IF runs = <<>> THEN globalRng ELSE runs[Len(runs)].g
          /\ tests' = [tests EXCEPT !["test_fit_predict_determinism"] =
                          IF \A i \in 1 .. Len(runs) : runs[i].ok
                          THEN "passed" ELSE "failed"]
    /\ UNCHANGED <<importOK, defaultSeed, loaded, TORCH_AVAILABLE, warned,
                   models_cls_kwargs_errs>>
    /\ UNCHANGED rfVars

\* ------------------- test_probabilistic_forecast_accuracy and ..._risk
\* Both loop over the list and call their helper on each entry, and a second
\* time, on the multivariate series, for a global model; the helper builds a
\* model, fits it and predicts, then asserts on mae / rho_risk.  The first
\* assertion that fails ends the test.  The metrics' values are not
\* modelled: the helper calls of entries 1..upto are made, the second call on
\* entry upto only if multi, and the test passes iff pass.
RunHelperTest(t, upto, multi, pass) ==
    /\ loaded
    /\ tests[t] = "notrun"
    /\ upto \in 1 .. Len(models_cls_kwargs_errs)
    /\ multi = (IsGlobal(models_cls_kwargs_errs[upto].cls) /\ multi)
    /\ pass => (upto = Len(models_cls_kwargs_errs)
                /\ multi = IsGlobal(models_cls_kwargs_errs[upto].cls))
    /\ LET uni == {models_cls_kwargs_errs[i].cls : i \in 1 .. upto}
           glob == {models_cls_kwargs_errs[i].cls : i \in
                      {k \in 1 .. upto : /\ IsGlobal(models_cls_kwargs_errs[k].cls)
                                         /\ (k < upto \/ multi)}}
       IN calls' = calls \cup CallsOf(uni, "constant_noisy_ts")
                         \cup CallsOf(glob, "constant_noisy_multivar_ts")
    /\ tests' = [tests EXCEPT ![t] = IF pass THEN "passed" ELSE "failed"]
    /\ UNCHANGED <<importOK, defaultSeed, loaded, TORCH_AVAILABLE, warned,
                   models_cls_kwargs_errs, globalRng, detRuns>>
    /\ UNCHANGED rfVars

RunAccuracy ==
    \E upto \in 1 .. Len(models_cls_kwargs_errs), multi \in BOOLEAN, pass \in BOOLEAN :
        RunHelperTest("test_probabilistic_forecast_accuracy", upto, multi, pass)

RunRisk ==
    \E upto \in 1 .. Len(models_cls_kwargs_errs), multi \in BOOLEAN, pass \in BOOLEAN :
        RunHelperTest("test_probabilistic_forecast_risk", upto, multi, pass)

\* ------------------------------------------------------- specifications
\* A RandomForest(...) call on a caller's dict of extra options, then str()
\* of the model; the test module is not in play.
Init ==
    /\ heap \in {<<d>> : d \in ExtraDicts}
    /\ call = NoCall
    /\ self = NoSelf
    /\ rfr = NoRfr
    /\ base = NoBase
    /\ result = "none"
    /\ trace = <<>>
    /\ strResult = NoStr
    /\ importOK = TRUE
    /\ defaultSeed = 0
    /\ loaded = FALSE
    /\ TORCH_AVAILABLE = "unset"
    /\ warned = FALSE
    /\ models_cls_kwargs_errs = <<>>
    /\ globalRng = 0
    /\ tests = [t \in TestNames |-> "notrun"]
    /\ calls = {}
    /\ detRuns = <<>>

Next ==
    \/ \E lags \in TargetLagInputs, lpc \in TargetLagInputs, lfc \in FutureLagInputs,
          ne \in HyperInputs, md \in HyperInputs :
           Construct(lags, lpc, lfc, ne, md)
    \/ Str

Spec == Init /\ [][Next]_vars

\* The import of the test module, with or without torch, then its tests in
\* any order; no RandomForest is in play.
InitTest ==
    /\ importOK \in BOOLEAN
    /\ defaultSeed \in 0 .. MaxSeed
    /\ loaded = FALSE
    /\ TORCH_AVAILABLE = "unset"
    /\ warned = FALSE
    /\ models_cls_kwargs_errs = <<>>
    /\ globalRng = 0
    /\ tests = [t \in TestNames |-> "notrun"]
    /\ calls = {}
    /\ detRuns = <<>>
    /\ heap = <<EmptyDict>>
    /\ call = NoCall
    /\ self = NoSelf
    /\ rfr = NoRfr
    /\ base = NoBase
    /\ result = "none"
    /\ trace = <<>>
    /\ strResult = NoStr

NextTest ==
    \/ LoadModule
    \/ RunDeterminism
    \/ RunAccuracy
    \/ RunRisk

SpecTest == InitTest /\ [][NextTest]_vars

\* ------------------------------------------------- claims on RandomForest
\* the keyword set the call's arguments amount to: the extra options, plus
\* n_estimators (100 when omitted) and max_depth (None when omitted)
ExpectedKwargs ==
    [k \in (DOMAIN call.extra) \cup {"n_estimators", "max_depth"} |->
        IF k = "n_estimators"
        THEN (IF call.n_estimators = Omitted THEN PyInt(100) ELSE call.n_estimators)
        ELSE IF k = "max_depth"
        THEN (IF call.max_depth = Omitted THEN PyNone ELSE call.max_depth)
        ELSE call.extra[k]]

\* C5: RandomForestRegressor is constructed with exactly the extra keyword
\* options, each with its value unchanged, plus n_estimators and max_depth
\* equal to the constructor's arguments (100 and None when omitted).
C5_RegressorKeywords == rfr.called => heap[rfr.kw] = ExpectedKwargs

C5_Witness ==
    /\ result = "instance"
    /\ rfr.called
    /\ call.n_estimators = Omitted
    /\ call.max_depth = PyInt(1)
    /\ DOMAIN call.extra = {"random_state"}

\* C6: the three lag arguments reach RegressionModel.__init__ as they were
\* given, whatever their shape and whether or not they are valid; the base
\* constructor is called whenever the regressor could be built, so
\* RandomForest rejects no lag specification itself.
C6_LagsForwarded ==
    /\ base.called =>
          /\ base.lags = call.lags
          /\ base.lags_past_covariates = call.lags_past_covariates
          /\ base.lags_future_covariates = call.lags_future_covariates
    /\ (call.made /\ RegressorAccepts(ExpectedKwargs)) => base.called

C6_Witness ==
    /\ base.called
    /\ call.lags.kind = "list"
    /\ call.lags_past_covariates.kind = "int"
    /\ call.lags_future_covariates.kind = "tuple"
    /\ result = "instance"

\* the lag arguments of the call are rejected by RegressionModel.__init__
CallLagsInvalid ==
    /\ call.made
    /\ ~BaseAccepts([lags |-> call.lags,
                     lags_past_covariates |-> call.lags_past_covariates,
                     lags_future_covariates |-> call.lags_future_covariates])

\* C8: with an invalid lag specification no instance is returned; the call
\* raises the base constructor's error, reached after RandomForestRegressor
\* was built, unless a keyword option is invalid, in which case the
\* regressor's TypeError is raised and the base constructor is not reached.
C8_InvalidLagsSurfaced ==
    CallLagsInvalid =>
        /\ result # "instance"
        /\ RegressorAccepts(ExpectedKwargs) =>
              /\ result = "RegressionModelError"
              /\ trace = <<"RandomForestRegressor", "RegressionModel.__init__">>
              /\ rfr.called /\ base.called
        /\ ~RegressorAccepts(ExpectedKwargs) =>
              /\ result = "TypeError"
              /\ rfr.called /\ ~base.called

C8_Witness ==
    /\ CallLagsInvalid
    /\ call.lags = LagInt(0)
    /\ result = "RegressionModelError"
    /\ rfr.called

\* C9: on a constructed RandomForest, self.kwargs holds n_estimators and
\* max_depth equal to the attributes of the same names, has the content the
\* regressor was given, and the caller's own dict is as it was before the call.
C9_StoredKwargs ==
    result = "instance" =>
        /\ {"n_estimators", "max_depth"} \subseteq DOMAIN heap[self.kwargs]
        /\ heap[self.kwargs]["n_estimators"] = self.n_estimators
        /\ heap[self.kwargs]["max_depth"] = self.max_depth
        /\ heap[self.kwargs] = heap[rfr.kw]
        /\ heap[CallerDict] = call.extra

C9_Witness ==
    /\ result = "instance"
    /\ strResult.called
    /\ DOMAIN call.extra = {"random_state"}
    /\ call.n_estimators = PyInt(1)

\* C10: str() of a constructed RandomForest returns a string: it raises
\* nothing and every attribute it reads has been set by the constructor.
C10_StrReturns ==
    strResult.called =>
        /\ strResult.outcome = "ok"
        /\ \A i \in 1 .. Len(StrReads) : StrReads[i] \in self.set

\* ---------------------------------------------- claims on the test module
Determinism == "test_fit_predict_determinism"

====
